---- MODULE Spec2Model ----
(***************************************************************************)
(* A model of the benefit eligibility engine of PSMRI/ubi-eligibility-sdk: *)
(*   - the condition evaluators checkCriteria (src/deploy.sh, the utility  *)
(*     with type detection and coercion) and checkCriterion (the method    *)
(*     of EligibilityService the aggregator calls),                        *)
(*   - the single-pair aggregators checkSchemaEligibility and              *)
(*     checkUserEligibility,                                               *)
(*   - the batch operations checkEligibility and checkUsersEligibility.    *)
(*                                                                         *)
(* JavaScript values are tagged records [t |-> <typeof-like tag>, v |-> _] *)
(* and JavaScript strings are sequences of one-character strings, so that  *)
(* toLowerCase, trim, Number(...) and String(...) are computed, not        *)
(* assumed.                                                                *)
(***************************************************************************)
EXTENDS Integers, Sequences, FiniteSets, TLC

VARIABLES
  pc,       \* "idle", the name of the running operation, or "done"
  args,     \* the arguments of the running operation
  i,        \* position of the running loop (criterion, schema or user), from 1
  reasons,  \* the reasons array of the running single-pair evaluation
  calls,    \* log: indices of the criteria the evaluator was invoked for
  results,  \* the buckets of the running batch operation
  routed,   \* log: the bucket each processed entry of a batch went to
  ret,      \* how the operation settled: none, resolved(value), rejected(error)
  i18nLocale, \* the current locale of the i18n module, shared by all calls
  tasks     \* the evaluations in flight at once, each with its own locals

vars == <<pc, args, i, reasons, calls, results, routed, ret, i18nLocale, tasks>>

-----------------------------------------------------------------------------
(* Bounds of the model.                                                     *)

MaxCriteria == 2
MaxSchemas == 2
MaxUsers == 2
MaxTasks == 2

-----------------------------------------------------------------------------
(* JavaScript values.                                                       *)

Undefined == [t |-> "undefined", v |-> 0]
Null == [t |-> "null", v |-> 0]
NaN == [t |-> "nan", v |-> 0]
Num(n) == [t |-> "number", v |-> n]
Str(s) == [t |-> "string", v |-> s]
Bool(b) == [t |-> "boolean", v |-> b]
\* an array of scalars
Arr(a) == [t |-> "array", v |-> a]
\* a condition object: { condition: c, criteria: { condition: n } }; a key
\* that is not there is Undefined
CondObj(c, n) == [t |-> "object", v |-> [condition |-> c, nested |-> n]]

IsArray(x) == x.t = "array"
TypeofObject(x) == x.t \in {"object", "array", "null"}
TypeofString(x) == x.t = "string"

UpperChars ==
  <<"A","B","C","D","E","F","G","H","I","J","K","L","M",
    "N","O","P","Q","R","S","T","U","V","W","X","Y","Z">>
LowerChars ==
  <<"a","b","c","d","e","f","g","h","i","j","k","l","m",
    "n","o","p","q","r","s","t","u","v","w","x","y","z">>
DigitChars == <<"0","1","2","3","4","5","6","7","8","9">>

IndexIn(seq, c) == CHOOSE k \in 1..Len(seq) : seq[k] = c
Occurs(seq, c) == \E k \in 1..Len(seq) : seq[k] = c

IsWhitespace(c) == c \in {" ", "\t", "\n"}
IsDigit(c) == Occurs(DigitChars, c)
DigitValue(c) == IndexIn(DigitChars, c) - 1

\* String.prototype.toLowerCase, one character
LowerChar(c) ==
  IF Occurs(UpperChars, c) THEN LowerChars[IndexIn(UpperChars, c)] ELSE c

\* the UTF-16 code unit of a character of the model's alphabet
CharCode(c) ==
  IF IsDigit(c) THEN 48 + DigitValue(c)
  ELSE IF Occurs(UpperChars, c) THEN 64 + IndexIn(UpperChars, c)
  ELSE IF Occurs(LowerChars, c) THEN 96 + IndexIn(LowerChars, c)
  ELSE CASE c = "\t" -> 9
         [] c = "\n" -> 10
         [] c = " " -> 32
         [] c = "+" -> 43
         [] c = "," -> 44
         [] c = "-" -> 45
         [] c = "<" -> 60
         [] c = "=" -> 61
         [] c = ">" -> 62
         [] c = "_" -> 95
         [] OTHER -> 0

ToLowerCase(s) == [k \in 1..Len(s) |-> LowerChar(s[k])]

RECURSIVE TrimStart(_)
TrimStart(s) ==
  IF s # <<>> /\ IsWhitespace(Head(s)) THEN TrimStart(Tail(s)) ELSE s

RECURSIVE TrimEnd(_)
TrimEnd(s) ==
  IF s # <<>> /\ IsWhitespace(s[Len(s)])
    THEN TrimEnd(SubSeq(s, 1, Len(s) - 1))
    ELSE s

\* String.prototype.trim
Trim(s) == TrimEnd(TrimStart(s))

\* s.replace(/\s+/g, '')
RemoveWhitespace(s) == SelectSeq(s, LAMBDA c : ~IsWhitespace(c))

RECURSIVE DigitsValue(_)
DigitsValue(s) ==
  IF s = <<>> THEN 0
  ELSE 10 * DigitsValue(SubSeq(s, 1, Len(s) - 1)) + DigitValue(s[Len(s)])

AllDigits(s) == s # <<>> /\ \A k \in 1..Len(s) : IsDigit(s[k])

\* Number(<string>): surrounding whitespace is dropped, the empty string is
\* 0, an optionally signed run of decimal digits is its value, anything else
\* is NaN.  (Fractions, exponents and hex literals are outside the strings
\* of the model.)
ParseNumber(u) ==
  IF u = <<>> THEN Num(0)
  ELSE IF AllDigits(u) THEN Num(DigitsValue(u))
  ELSE IF Head(u) = "-" /\ AllDigits(Tail(u)) THEN Num(0 - DigitsValue(Tail(u)))
  ELSE IF Head(u) = "+" /\ AllDigits(Tail(u)) THEN Num(DigitsValue(Tail(u)))
  ELSE NaN

StringToNumber(s) == ParseNumber(Trim(s))

RECURSIVE NatToString(_)
NatToString(n) ==
  IF n < 10 THEN <<DigitChars[n + 1]>>
  ELSE NatToString(n \div 10) \o <<DigitChars[(n % 10) + 1]>>

\* String(<number>) of an integer
NumberToString(n) == IF n < 0 THEN <<"-">> \o NatToString(0 - n) ELSE NatToString(n)

\* String(x) of a scalar
ScalarToString(x) ==
  CASE x.t = "undefined" -> <<"u","n","d","e","f","i","n","e","d">>
    [] x.t = "null" -> <<"n","u","l","l">>
    [] x.t = "nan" -> <<"N","a","N">>
    [] x.t = "number" -> NumberToString(x.v)
    [] x.t = "boolean" -> IF x.v THEN <<"t","r","u","e">> ELSE <<"f","a","l","s","e">>
    [] x.t = "string" -> x.v
    [] OTHER -> <<"[","o","b","j","e","c","t"," ","O","b","j","e","c","t","]">>

\* Array.prototype.join(sep): null and undefined elements give ''
RECURSIVE Join(_, _)
Join(a, sep) ==
  IF a = <<>> THEN <<>>
  ELSE LET h == IF Head(a).t \in {"undefined", "null"} THEN <<>>
                ELSE ScalarToString(Head(a))
       IN IF Len(a) = 1 THEN h ELSE h \o sep \o Join(Tail(a), sep)

\* String(x), and `${x}` in a template literal
JsString(x) == IF IsArray(x) THEN Join(x.v, <<",">>) ELSE ScalarToString(x)

\* Number(x)
ToNumber(x) ==
  CASE x.t = "undefined" -> NaN
    [] x.t = "null" -> Num(0)
    [] x.t = "nan" -> NaN
    [] x.t = "number" -> x
    [] x.t = "boolean" -> IF x.v THEN Num(1) ELSE Num(0)
    [] x.t = "string" -> StringToNumber(x.v)
    [] x.t = "array" -> StringToNumber(Join(x.v, <<",">>))
    [] OTHER -> NaN

\* Boolean(x), and !x negated
ToBoolean(x) ==
  CASE x.t \in {"undefined", "null", "nan"} -> FALSE
    [] x.t = "number" -> x.v # 0
    [] x.t = "boolean" -> x.v
    [] x.t = "string" -> x.v # <<>>
    [] OTHER -> TRUE

\* isNaN(x)
IsNaN(x) == ToNumber(x) = NaN

\* a === b.  Two arrays or objects are never the same reference here: one
\* comes from the profile and the other from the schema, or a map() made it.
StrictEquals(a, b) ==
  /\ a.t = b.t
  /\ a.t \notin {"nan", "array", "object"}
  /\ a = b

\* Array.prototype.includes (SameValueZero: NaN is found)
Includes(a, x) ==
  /\ x.t \notin {"array", "object"}
  /\ \E k \in 1..Len(a) : a[k] = x

\* s < u on strings: by code units, a proper prefix is smaller
RECURSIVE StringLess(_, _)
StringLess(s, u) ==
  IF u = <<>> THEN FALSE
  ELSE IF s = <<>> THEN TRUE
  ELSE IF CharCode(Head(s)) # CharCode(Head(u))
    THEN CharCode(Head(s)) < CharCode(Head(u))
    ELSE StringLess(Tail(s), Tail(u))

\* a < b for two values of one primitive type, as the relational operators
\* compare them: strings by code units, everything else as numbers, and
\* NaN compares false with everything
NumberLess(x, y) == x # NaN /\ y # NaN /\ x.v < y.v

NumberLessEq(x, y) == x # NaN /\ y # NaN /\ x.v <= y.v

Less(a, b) ==
  IF a.t = "string" /\ b.t = "string" THEN StringLess(a.v, b.v)
  ELSE NumberLess(ToNumber(a), ToNumber(b))

\* a <= that leaves the equal case out
LessEq_exclusive(a, b) == Less(a, b)

LessEq(a, b) ==
  IF a.t = "string" /\ b.t = "string" THEN a.v = b.v \/ StringLess(a.v, b.v)
  ELSE NumberLessEq(ToNumber(a), ToNumber(b))

-----------------------------------------------------------------------------
(* How an asynchronous operation settles.                                   *)

NotSettled == [kind |-> "none"]
Resolved(value) == [kind |-> "resolved", value |-> value]
Rejected(error) == [kind |-> "rejected", error |-> error]

\* new Error(message): the message is a fixed text, named by msg, with the
\* locale it was rendered in and the string interpolated into it
Error(msg, locale, arg) == [msg |-> msg, locale |-> locale, arg |-> arg]

\* translate(locale, key, variables) of utils/i18n: the text of key in the
\* target locale, "en" when none is given
translate(locale, key, arg) == Error(key, IF locale = "" THEN "en" ELSE locale, arg)

\* a translate that leaves the locale it set
localeAfterTranslate_notRestored(originalLocale, locale) ==
  IF locale = "" THEN "en" ELSE locale

\* the current locale of i18n after translate(locale, ...): translate sets
\* the target locale, translates, and sets originalLocale || "en" again
localeAfterTranslate(originalLocale, locale) ==
  IF originalLocale = "" THEN "en" ELSE originalLocale

-----------------------------------------------------------------------------
(* The condition evaluator checkCriteria.                                   *)

\* a detectType that takes every operand for a string
detectType_alwaysString(value) == "string"

\* const detectType = (value) => ...
detectType(value) ==
  LET x == IF IsArray(value)
             THEN (IF value.v = <<>> THEN Undefined ELSE value.v[1])
             ELSE value
  IN IF ~IsNaN(x) /\ x # Str(<<>>) THEN "number"
     ELSE IF x = Str(<<"t","r","u","e">>) \/ x = Str(<<"f","a","l","s","e">>)
       THEN "boolean"
     ELSE "string"

\* a conversion that does not take the first element of an array
convertToType_keepsArray(value, type) ==
  CASE type = "number" -> ToNumber(value)
    [] type = "string" -> Str(ToLowerCase(JsString(value)))
    [] type = "boolean" -> Bool(ToBoolean(value))
    [] OTHER -> value

\* const convertToType = (value, type) => ...
convertToType(value, type) ==
  LET x == IF IsArray(value)
             THEN (IF value.v = <<>> THEN Undefined ELSE value.v[1])
             ELSE value
  IN CASE type = "number" -> ToNumber(x)
       [] type = "string" -> Str(ToLowerCase(JsString(x)))
       [] type = "boolean" -> Bool(ToBoolean(x))
       [] OTHER -> x

\* an extraction that does not check what it took out of an operator object
conditionStrOf_uncheckedObject(condition, locale) ==
  IF ~ToBoolean(condition)
    THEN Rejected(translate(locale, "errors.conditionRequired", <<>>))
  ELSE LET c == IF TypeofObject(condition)
                  THEN (IF condition.t = "object"
                          THEN (IF ToBoolean(condition.v.condition)
                                  THEN condition.v.condition
                                  ELSE condition.v.nested)
                          ELSE Undefined)
                  ELSE condition
       IN IF ~TypeofString(c)
            THEN Rejected(Error("TypeError", "", <<>>))
            ELSE Resolved(RemoveWhitespace(Trim(ToLowerCase(c.v))))

\* the string the operator is matched on, or the error of its extraction
\* (deploy.sh lines 88-99)
conditionStrOf(condition, locale) ==
  IF ~ToBoolean(condition)
    THEN Rejected(translate(locale, "errors.conditionRequired", <<>>))
  ELSE LET c == IF TypeofObject(condition)
                  THEN (IF condition.t = "object"
                          THEN (IF ToBoolean(condition.v.condition)
                                  THEN condition.v.condition
                                  ELSE condition.v.nested)
                          ELSE Undefined)
                  ELSE condition
       IN IF TypeofObject(condition) /\ ~ToBoolean(c)
            THEN Rejected(translate(locale, "errors.invalidConditionStructure", <<>>))
          ELSE IF ~TypeofString(c)
            \* conditionStr.toLowerCase is not a function
            THEN Rejected(Error("TypeError", "", <<>>))
          ELSE Resolved(RemoveWhitespace(Trim(ToLowerCase(c.v))))

S_equals == <<"e","q","u","a","l","s">>
S_in == <<"i","n">>
S_between == <<"b","e","t","w","e","e","n">>
S_gte == <<"g","t","e">>
S_lte == <<"l","t","e">>
S_gt == <<"g","t">>
S_lt == <<"l","t">>
S_greaterthan == <<"g","r","e","a","t","e","r","t","h","a","n">>
S_lessthan == <<"l","e","s","s","t","h","a","n">>

EqualsAliases == {S_equals, <<"e","q","u","a","l">>, <<"=">>, <<"=","=">>}
InAliases == {S_in, <<"i","n","c","l","u","d","e","s">>}
GteAliases ==
  {S_greaterthan \o S_equals, S_greaterthan \o <<"e","q","u","a","l">>, S_gte, <<">","=">>}
LteAliases ==
  {S_lessthan \o S_equals, S_lessthan \o <<"e","q","u","a","l">>, S_lte, <<"<","=">>}
GtAliases == {S_greaterthan, S_gt, <<">">>}
LtAliases == {S_lessthan, S_lt, <<"<">>}

\* conditionValues.map(v => convertToType(v, valueType))
mapConvert(conditionValues, valueType) ==
  [k \in 1..Len(conditionValues.v) |-> convertToType(conditionValues.v[k], valueType)]

\* the switch of checkCriteria (deploy.sh lines 137-191)
criteriaSwitch(conditionStr, convertedUserValue, convertedConditionValue,
               conditionValues, valueType, locale) ==
  CASE conditionStr \in EqualsAliases ->
         Resolved(StrictEquals(convertedUserValue, convertedConditionValue))
    [] conditionStr \in InAliases ->
         Resolved(/\ IsArray(conditionValues)
                  /\ Includes(mapConvert(conditionValues, valueType), convertedUserValue))
    [] conditionStr \in GteAliases ->
         Resolved(LessEq(convertedConditionValue, convertedUserValue))
    [] conditionStr \in LteAliases ->
         Resolved(LessEq(convertedUserValue, convertedConditionValue))
    [] conditionStr \in GtAliases ->
         Resolved(Less(convertedConditionValue, convertedUserValue))
    [] conditionStr \in LtAliases ->
         Resolved(Less(convertedUserValue, convertedConditionValue))
    [] conditionStr = S_between ->
         IF ~IsArray(conditionValues) \/ Len(conditionValues.v) # 2
           THEN Rejected(translate(locale, "errors.betweenConditionRequiresArray", <<>>))
           ELSE Resolved(/\ LessEq(convertToType(conditionValues.v[1], valueType),
                                   convertedUserValue)
                         /\ LessEq(convertedUserValue,
                                   convertToType(conditionValues.v[2], valueType)))
    [] OTHER ->
         Rejected(translate(locale, "errors.unsupportedCondition", conditionStr))

\* checkCriteria once the condition string is extracted (lines 133-193)
criteriaCompare(cs, userValue, conditionValues, valueType, locale) ==
  IF cs.kind = "rejected" THEN cs
  ELSE criteriaSwitch(cs.value, convertToType(userValue, valueType),
                      convertToType(conditionValues, valueType),
                      conditionValues, valueType, locale)

\* a checkCriteria that takes the comparison type from the subject
checkCriteria_typeOfSubject(userValue, condition, conditionValues, locale) ==
  criteriaCompare(conditionStrOf(condition, locale), userValue, conditionValues,
                  detectType(userValue), locale)

\* function checkCriteria(userValue, condition, conditionValues, locale = "en")
checkCriteria(userValue, condition, conditionValues, locale) ==
  criteriaCompare(conditionStrOf(condition, locale), userValue, conditionValues,
                  detectType(conditionValues), locale)

\* the current locale of i18n after checkCriteria: it calls translate once
\* when it throws one of its own errors, and not at all otherwise
localeAfterCheckCriteria(originalLocale, condition, conditionValues, locale) ==
  IF checkCriteria(Undefined, condition, conditionValues, locale).kind = "rejected"
       /\ checkCriteria(Undefined, condition, conditionValues, locale).error.locale # ""
    THEN localeAfterTranslate(originalLocale, locale)
    ELSE originalLocale

-----------------------------------------------------------------------------
(* The condition evaluator of the service, EligibilityService.checkCriterion *)

S_greater_than_equals ==
  <<"g","r","e","a","t","e","r"," ","t","h","a","n"," ","e","q","u","a","l","s">>
S_greater_than_equals_u ==
  <<"g","r","e","a","t","e","r","_","t","h","a","n","_","e","q","u","a","l","s">>
S_less_than_equals ==
  <<"l","e","s","s"," ","t","h","a","n"," ","e","q","u","a","l","s">>
S_less_than_equals_u ==
  <<"l","e","s","s","_","t","h","a","n","_","e","q","u","a","l","s">>

\* the condition string checkCriterion switches on, or the error of its
\* extraction (eligibilityService.js lines 368-396)
criterionConditionStr(condition) ==
  IF ~ToBoolean(condition)
    THEN Rejected(Error("Condition is required for eligibility check", "en", <<>>))
  ELSE IF TypeofObject(condition)
         /\ ~(condition.t = "object"
              /\ (ToBoolean(condition.v.condition) \/ ToBoolean(condition.v.nested)))
    THEN Rejected(Error("Invalid condition object structure", "en", <<>>))
  ELSE LET c == IF condition.t = "object"
                  THEN (IF ToBoolean(condition.v.condition)
                          THEN condition.v.condition
                          ELSE condition.v.nested)
                  ELSE condition
       IN IF ~TypeofString(c)
            THEN Rejected(Error("Condition must be a string", "en", <<>>))
            ELSE Resolved(Trim(ToLowerCase(c.v)))

\* the switch of checkCriterion (eligibilityService.js lines 398-419)
criterionSwitch(cs, userValue, conditionValues) ==
  IF cs.kind = "rejected" THEN cs
  ELSE
    CASE cs.value = S_equals ->
           Resolved(StrictEquals(userValue, conditionValues))
      [] cs.value = S_in ->
           Resolved(IsArray(conditionValues) /\ Includes(conditionValues.v, userValue))
      [] cs.value \in {S_greater_than_equals, S_greater_than_equals_u} ->
           Resolved(NumberLessEq(ToNumber(conditionValues), ToNumber(userValue)))
      [] cs.value \in {S_less_than_equals, S_less_than_equals_u} ->
           Resolved(NumberLessEq(ToNumber(userValue), ToNumber(conditionValues)))
      [] cs.value = S_between ->
           IF ~IsArray(conditionValues) \/ Len(conditionValues.v) # 2
             THEN Rejected(Error("Between condition requires an array of two values",
                                 "en", <<>>))
             ELSE Resolved(/\ NumberLessEq(ToNumber(conditionValues.v[1]),
                                           ToNumber(userValue))
                           /\ NumberLessEq(ToNumber(userValue),
                                           ToNumber(conditionValues.v[2])))
      [] OTHER ->
           Rejected(Error("Unsupported condition: ${conditionStr}", "en", cs.value))

\* async checkCriterion(userValue, condition, conditionValues)
checkCriterion(userValue, condition, conditionValues) ==
  criterionSwitch(criterionConditionStr(condition), userValue, conditionValues)

-----------------------------------------------------------------------------
(* Profiles, criteria and schemas.                                          *)
(*                                                                          *)
(* A user profile is [fields, documents]: fields maps an attribute name to  *)
(* its value (Undefined: the key is not there), documents maps a proof type *)
(* to "absent", "unverified" or "verified" (userProfile.documents[type]).   *)
(* A criterion is [type, description, criteria: [name, condition,           *)
(* conditionValues], allowedProofs]; allowedProofs is [kind, proofs] with   *)
(* kind "undefined" (no such key), "array", or "number" (a value that is    *)
(* truthy and not iterable).                                                *)
(* A schema document is [kind, id, en] with en = [kind, eligibility] and    *)
(* eligibility = [kind, items].                                             *)

NoProofs == [kind |-> "undefined", proofs |-> <<>>]
Proofs(ps) == [kind |-> "array", proofs |-> ps]
BadProofs == [kind |-> "number", proofs |-> <<>>]

Criterion(type, name, condition, conditionValues, allowedProofs) ==
  [type |-> type, description |-> "d_" \o name,
   criteria |-> [name |-> name, condition |-> condition,
                 conditionValues |-> conditionValues],
   allowedProofs |-> allowedProofs]

NoEligibility == [kind |-> "undefined", items |-> <<>>]
Eligibility(items) == [kind |-> "array", items |-> items]
NoEn == [kind |-> "undefined", eligibility |-> NoEligibility]
En(eligibility) == [kind |-> "object", eligibility |-> eligibility]
NullSchema == [kind |-> "null", id |-> Undefined, en |-> NoEn]
PrimitiveSchema == [kind |-> "primitive", id |-> Undefined, en |-> NoEn]
SchemaDoc(id, en) == [kind |-> "object", id |-> id, en |-> en]

\* the enum of eligibility[].type in the compiled benefit schema
TypeEnum == {"personal", "educational", "economical", "geographical"}

\* the enum of criteria.condition in the compiled benefit schema
ConditionEnum ==
  {Str(S_equals), Str(S_in), Str(S_greater_than_equals), Str(S_less_than_equals)}

\* one item of en.eligibility against the compiled benefit schema
validItem(item) ==
  /\ item.type \in TypeEnum
  /\ item.criteria.condition \in ConditionEnum
  /\ LET cv == item.criteria.conditionValues IN
     \/ cv.t = "string"
     \/ /\ cv.t = "array"
        /\ Len(cv.v) >= 1
        /\ \A k \in 1..Len(cv.v) : cv.v[k].t = "string"

\* validateBenefitSchema(schema).isValid
validateBenefitSchema(schema) ==
  /\ schema.kind = "object"
  /\ schema.en.kind = "object"
  /\ schema.en.eligibility.kind = "array"
  /\ \A k \in 1..Len(schema.en.eligibility.items) :
       validItem(schema.en.eligibility.items[k])

-----------------------------------------------------------------------------
(* The single-pair aggregators.                                             *)

\* async checkDocumentValidity(userProfile, criterion), the definition of
\* lines 540-555: the class body defines the method twice and the later
\* definition is the one the class has
\* the first checkDocumentValidity of the class (lines 196-246), which reads
\* the document requirements of a schema: a criterion has none, and the
\* object it answers with is truthy
checkDocumentValidity_earlierDefinition(userProfile, criterion) == Resolved(TRUE)

checkDocumentValidity(userProfile, criterion) ==
  LET allowedProofs == criterion.allowedProofs IN
  IF allowedProofs.kind = "undefined"
       \/ (allowedProofs.kind = "array" /\ Len(allowedProofs.proofs) = 0)
    THEN Resolved(TRUE)
  ELSE IF allowedProofs.kind # "array"
    \* for (const proofType of allowedProofs): allowedProofs is not iterable
    THEN Rejected(Error("TypeError", "", <<>>))
  ELSE Resolved(\E k \in 1..Len(allowedProofs.proofs) :
                  userProfile.documents[allowedProofs.proofs[k]] = "verified")

\* a reason object of checkSchemaEligibility; a key that is not set is
\* Undefined
Reason(kind, criterion, userValue, requiredValue, condition, requiredDocuments) ==
  [kind |-> kind, type |-> criterion.type, field |-> criterion.criteria.name,
   description |-> criterion.description, userValue |-> userValue,
   requiredValue |-> requiredValue, condition |-> condition,
   requiredDocuments |-> requiredDocuments]

\* a reason string of checkUserEligibility: the fixed text named by kind,
\* the strings interpolated into it, and for a failed condition the
\* " (Required: <op> <required>, Got: <got>)" part, op "none" when the
\* string has no such part
ReasonString(kind, criterion, op, required, got) ==
  [kind |-> kind, type |-> criterion.type, field |-> criterion.criteria.name,
   description |-> criterion.description,
   op |-> op, required |-> required, got |-> got]

\* the reason checkUserEligibility builds for a failed condition (lines
\* 505-515), or the TypeError of conditionValues.join
failedConditionString(criterion, userValue) ==
  LET condition == criterion.criteria.condition
      conditionValues == criterion.criteria.conditionValues
      got == JsString(userValue)
      plain(op) == [kind |-> "reason",
                    reason |-> ReasonString("ConditionFailed", criterion, op,
                                            JsString(conditionValues), got)]
  IN IF condition = Str(S_in)
       THEN IF IsArray(conditionValues)
              THEN [kind |-> "reason",
                    reason |-> ReasonString("ConditionFailed", criterion, "in",
                                            Join(conditionValues.v, <<",", " ">>), got)]
              ELSE [kind |-> "throw", error |-> Error("TypeError", "", <<>>)]
     ELSE IF condition \in {Str(S_less_than_equals), Str(S_less_than_equals_u)}
       THEN plain("<=")
     ELSE IF condition \in {Str(S_greater_than_equals), Str(S_greater_than_equals_u)}
       THEN plain(">=")
     ELSE IF condition = Str(S_equals)
       THEN plain("=")
     ELSE [kind |-> "reason",
           reason |-> ReasonString("ConditionFailed", criterion, "none", <<>>, <<>>)]

Outcome(kind, reason, error, called) ==
  [kind |-> kind, reason |-> reason, error |-> error, called |-> called]

\* an aggregator that catches the error of checkCriterion and reports the
\* criterion as failed
conditionOutcome_swallowsError(criterion, userValue, isEligible, mode) ==
  IF isEligible.kind = "rejected" \/ ~isEligible.value
    THEN Outcome("reason",
                 IF mode = "schema"
                   THEN Reason("ConditionFailed", criterion, userValue,
                               criterion.criteria.conditionValues,
                               criterion.criteria.condition, NoProofs)
                   ELSE ReasonString("ConditionFailed", criterion, "none", <<>>, <<>>),
                 Undefined, TRUE)
    ELSE Outcome("pass", Undefined, Undefined, TRUE)

\* lines 338-350 and 502-516: what follows the call of checkCriterion
conditionOutcome(criterion, userValue, isEligible, mode) ==
  IF isEligible.kind = "rejected"
    THEN Outcome("throw", Undefined, isEligible.error, TRUE)
  ELSE IF isEligible.value
    THEN Outcome("pass", Undefined, Undefined, TRUE)
  ELSE IF mode = "schema"
    THEN Outcome("reason",
                 Reason("ConditionFailed", criterion, userValue,
                        criterion.criteria.conditionValues,
                        criterion.criteria.condition, NoProofs),
                 Undefined, TRUE)
  ELSE LET r == failedConditionString(criterion, userValue) IN
       IF r.kind = "throw"
         THEN Outcome("throw", Undefined, r.error, TRUE)
         ELSE Outcome("reason", r.reason, Undefined, TRUE)

\* lines 323-336 and 493-500: the document gate; TRUE lets the pass go on
\* to the condition
documentOutcome(criterion, hasValidDocument, mode) ==
  IF hasValidDocument.kind = "rejected"
    THEN Outcome("throw", Undefined, hasValidDocument.error, FALSE)
  ELSE IF ~hasValidDocument.value
    THEN Outcome("reason",
                 IF mode = "schema"
                   THEN Reason("DocumentInvalid", criterion, Undefined, Undefined,
                               Undefined, criterion.allowedProofs)
                   ELSE ReasonString("DocumentInvalid", criterion, "none", <<>>, <<>>),
                 Undefined, FALSE)
  ELSE Outcome("gate passed", Undefined, Undefined, FALSE)

\* a loop that takes every falsy value of the field for a missing field
criterionPass_falsyIsMissing(userProfile, criterion, userValue, gate, mode) ==
  IF ~ToBoolean(userValue)
    THEN Outcome("reason",
                 IF mode = "schema"
                   THEN Reason("MissingField", criterion, Undefined, Undefined,
                               Undefined, NoProofs)
                   ELSE ReasonString("MissingField", criterion, "none", <<>>, <<>>),
                 Undefined, FALSE)
  ELSE IF criterion.allowedProofs.kind # "undefined" /\ gate.kind # "gate passed"
    THEN gate
  ELSE conditionOutcome(criterion, userValue,
                        checkCriterion(userValue, criterion.criteria.condition,
                                       criterion.criteria.conditionValues),
                        mode)

\* one pass of the loop over the criteria, of checkSchemaEligibility (mode
\* "schema", lines 307-350) or of checkUserEligibility (mode "user", lines
\* 482-516): [kind, reason, error, called], kind "pass", "reason" (a reason
\* was pushed) or "throw"; called tells whether checkCriterion was invoked
criterionPass(userProfile, criterion, userValue, gate, mode) ==
  IF userValue = Undefined
    THEN Outcome("reason",
                 IF mode = "schema"
                   THEN Reason("MissingField", criterion, Undefined, Undefined,
                               Undefined, NoProofs)
                   ELSE ReasonString("MissingField", criterion, "none", <<>>, <<>>),
                 Undefined, FALSE)
  ELSE IF criterion.allowedProofs.kind # "undefined" /\ gate.kind # "gate passed"
    THEN gate
  ELSE conditionOutcome(criterion, userValue,
                        checkCriterion(userValue, criterion.criteria.condition,
                                       criterion.criteria.conditionValues),
                        mode)

criterionOutcome(userProfile, criterion, mode) ==
  criterionPass(userProfile, criterion,
                userProfile.fields[criterion.criteria.name],
                documentOutcome(criterion,
                                checkDocumentValidity(userProfile, criterion), mode),
                mode)

\* the loop over the criteria from position k on: [kind |-> "ok", reasons]
\* or [kind |-> "throw", error]
RECURSIVE runCriteria(_, _, _, _)
RECURSIVE runRest(_, _, _, _, _)
runCriteria(userProfile, items, k, mode) ==
  IF k > Len(items) THEN [kind |-> "ok", reasons |-> <<>>, error |-> Undefined]
  ELSE runRest(userProfile, items, k, mode,
               criterionOutcome(userProfile, items[k], mode))

prepend(o, rest) ==
  IF rest.kind = "throw" THEN rest
  ELSE [kind |-> "ok",
        reasons |-> (IF o.kind = "reason" THEN <<o.reason>> ELSE <<>>) \o rest.reasons,
        error |-> Undefined]

runRest(userProfile, items, k, mode, o) ==
  IF o.kind = "throw"
    THEN [kind |-> "throw", reasons |-> <<>>, error |-> o.error]
    ELSE prepend(o, runCriteria(userProfile, items, k + 1, mode))

\* a checkSchemaEligibility that returns its reasons array as it is
schemaVerdict_keepsArray(rs) == [isEligible |-> Len(rs) = 0, reasons |-> Arr(rs)]

\* the return statement of checkSchemaEligibility (lines 354-357)
schemaVerdict(rs) ==
  [isEligible |-> Len(rs) = 0, reasons |-> IF Len(rs) > 0 THEN Arr(rs) ELSE Null]

\* the early return of checkSchemaEligibility (lines 272-277)
noCriteriaVerdict ==
  [isEligible |-> FALSE,
   reasons |-> Arr(<<[kind |-> "NoCriteriaDefined", type |-> "", field |-> "",
                      description |-> "", userValue |-> Undefined,
                      requiredValue |-> Undefined, condition |-> Undefined,
                      requiredDocuments |-> NoProofs]>>)]

\* the return statement of checkUserEligibility (lines 520-531)
userVerdict(rs) == [isEligible |-> Len(rs) = 0, reasons |-> Arr(rs)]

settleSchema(r) ==
  IF r.kind = "throw" THEN Rejected(r.error) ELSE Resolved(schemaVerdict(r.reasons))

settleUser(r) ==
  IF r.kind = "throw" THEN Rejected(r.error) ELSE Resolved(userVerdict(r.reasons))

\* async checkSchemaEligibility(userProfile, schema, customRules), as one
\* call; schema is the en part of a schema document
checkSchemaEligibility(userProfile, schema) ==
  IF schema.eligibility.kind # "array" THEN Resolved(noCriteriaVerdict)
  ELSE settleSchema(runCriteria(userProfile, schema.eligibility.items, 1, "schema"))

\* async checkUserEligibility(userProfile, scheme), as one call
checkUserEligibility(userProfile, scheme) ==
  IF scheme.en.kind # "object" \/ scheme.en.eligibility.kind # "array"
    \* enSchema.eligibility of undefined, or for ... of undefined
    THEN Rejected(Error("TypeError", "", <<>>))
  ELSE settleUser(runCriteria(userProfile, scheme.en.eligibility.items, 1, "user"))

-----------------------------------------------------------------------------
(* The batch operations.                                                    *)

S_Unknown == <<"U","n","k","n","o","w","n">>

\* schema.id || 'Unknown'
idOrUnknown(schema) == IF ToBoolean(schema.id) THEN schema.id ELSE Str(S_Unknown)

push(rs, bucket, entry) == [rs EXCEPT ![bucket] = Append(@, entry)]

Routed(rs, bucket, entry) ==
  [kind |-> "ok", results |-> push(rs, bucket, entry), bucket |-> bucket,
   error |-> Undefined]

Thrown(rs, error) ==
  [kind |-> "throw", results |-> rs, bucket |-> "", error |-> error]

\* lines 141-184 of checkEligibility: the schema passed validation
routeSchema(rs, schema, eligibilityResult) ==
  IF eligibilityResult.kind = "rejected"
    THEN Routed(rs, "errors", [schemaId |-> idOrUnknown(schema),
                               error |-> eligibilityResult.error])
  ELSE IF eligibilityResult.value.isEligible
    THEN Routed(rs, "eligible", [schemaId |-> schema.id])
  ELSE Routed(rs, "ineligible", [schemaId |-> schema.id,
                                 reasons |-> eligibilityResult.value.reasons])

\* one pass of the loop of checkEligibility (lines 122-185):
\* [kind |-> "ok", results, bucket], or [kind |-> "throw", error] when the
\* pass throws out of its catch block
eligibilityPass(rs, userProfile, schema) ==
  IF schema.kind = "null"
    \* schema.id of null throws in the try block and again in the catch
    THEN Thrown(rs, Error("TypeError", "", <<>>))
  ELSE IF ~validateBenefitSchema(schema)
    THEN Routed(rs, "errors", [schemaId |-> idOrUnknown(schema),
                               error |-> Error("Invalid schema structure", "en", <<>>)])
  ELSE routeSchema(rs, schema, checkSchemaEligibility(userProfile, schema.en))

\* lines 572-593 of checkUsersEligibility
routeUser(rs, userProfile, eligibilityResult) ==
  IF eligibilityResult.kind = "rejected"
    \* nothing catches it: the await throws out of checkUsersEligibility
    THEN Thrown(rs, eligibilityResult.error)
  ELSE IF eligibilityResult.value.isEligible
    THEN Routed(rs, "eligibleUsers",
                [userProfile |-> userProfile, eligibleSchemes |-> <<Undefined>>])
  ELSE Routed(rs, "ineligibleUsers",
              [userProfile |-> userProfile,
               reasons |-> eligibilityResult.value.reasons.v])

\* one pass of the loop of checkUsersEligibility (lines 569-594)
usersPass(rs, userProfile, scheme) ==
  routeUser(rs, userProfile, checkUserEligibility(userProfile, scheme))

-----------------------------------------------------------------------------
(* The inputs of the model.                                                 *)

S_John == <<"J","o","h","n">>
S_john == <<"j","o","h","n">>
S_18 == <<"1","8">>

Profile(age, name, aadhaar) ==
  [fields |-> [age |-> age, name |-> name],
   documents |-> [aadhaar |-> aadhaar, pan |-> "absent"]]

Profiles ==
  {Profile(a, n, d) : a \in {Undefined, Num(0), Num(16), Num(20)},
                      n \in {Str(S_John), Str(S_john)},
                      d \in {"absent", "unverified", "verified"}}

\* age >= "18", as the compiled benefit schema accepts it
AgeGte == Criterion("personal", "age", Str(S_greater_than_equals), Str(S_18), NoProofs)
\* the same with a spelling checkCriterion normalizes
AgeGteCaps ==
  Criterion("personal", "age",
            Str(<<"G","r","e","a","t","e","r"," ","T","h","a","n"," ",
                  "E","q","u","a","l","s">>),
            Str(S_18), NoProofs)
\* { name: "age", condition: "gte", conditionValues: 18 }
AgeGteShort == Criterion("personal", "age", Str(S_gte), Num(18), NoProofs)
AgeNoCondition == Criterion("personal", "age", Undefined, Num(18), NoProofs)
AgeBadObject == Criterion("personal", "age", CondObj(Undefined, Undefined), Num(18), NoProofs)
AgeBadBetween == Criterion("personal", "age", Str(S_between), Arr(<<Num(18)>>), NoProofs)
AgeStartsWith ==
  Criterion("personal", "age", Str(<<"s","t","a","r","t","s","w","i","t","h">>),
            Str(<<"1">>), NoProofs)
AgeGated ==
  Criterion("economical", "age", Str(S_less_than_equals), Str(S_18),
            Proofs(<<"pan", "aadhaar">>))
NameGated == Criterion("personal", "name", Str(S_equals), Str(S_john), Proofs(<<"pan">>))
AgeGatedEmpty ==
  Criterion("economical", "age", Str(S_less_than_equals), Str(S_18), Proofs(<<>>))
AgeGatedBad == Criterion("economical", "age", Str(S_equals), Str(S_18), BadProofs)
NameEquals == Criterion("personal", "name", Str(S_equals), Str(S_john), NoProofs)
NameIn ==
  Criterion("personal", "name", Str(S_in), Arr(<<Str(S_john), Str(S_John)>>), NoProofs)

CriteriaUniverse ==
  {AgeGte, AgeGteCaps, AgeGteShort, AgeNoCondition, AgeBadObject, AgeBadBetween,
   AgeGated, NameGated, AgeGatedEmpty, AgeGatedBad, NameEquals, NameIn}

SeqsUpTo(S, n) == UNION {[1..k -> S] : k \in 0..n}

\* the numbers the evaluators are called with, and the forms a number
\* arrives in: the number, its decimal string, and that string in blanks
NumPool == {0 - 2, 0, 2, 9, 10, 18}
NumericForms(n) ==
  {Num(n), Str(NumberToString(n)), Str(<<" ">> \o NumberToString(n) \o <<" ">>)}
NumericValues == UNION {NumericForms(n) : n \in NumPool}

S_true == <<"t","r","u","e">>
S_false == <<"f","a","l","s","e">>
S_JOHN == <<"J","O","H","N">>
S_jane == <<"j","a","n","e">>

\* the strings that neither parse as a number nor spell a boolean
PlainStrings == {S_John, S_john, S_JOHN, S_jane}

UserValues ==
  NumericValues \cup {Str(x) : x \in PlainStrings}
    \cup {Str(<<>>), Bool(TRUE), Bool(FALSE), Arr(<<Num(9), Num(18)>>),
          Arr(<<Num(2), Num(9)>>), Arr(<<Str(S_John), Str(S_jane)>>)}

ConditionValues ==
  NumericValues \cup {Str(x) : x \in PlainStrings}
    \cup {Str(<<>>), Str(S_true), Str(S_false),
          Arr(<<>>), Arr(<<Num(9)>>), Arr(<<Num(2), Num(10)>>),
          Arr(<<Str(<<"2">>), Str(<<"1","0">>)>>),
          Arr(<<Str(S_jane), Str(S_john)>>), Arr(<<Num(0), Num(9), Num(18)>>)}

Conditions ==
  {Str(S_equals), Str(<<"=","=">>), Str(S_in), Str(<<"i","n","c","l","u","d","e","s">>),
   Str(S_gte), Str(S_lte), Str(S_gt), Str(S_lt), Str(<<">","=">>),
   Str(S_greater_than_equals), Str(S_greater_than_equals_u),
   Str(S_less_than_equals),
   Str(<<" ","G","r","e","a","t","e","r"," ","T","h","a","n"," ",
         "E","q","u","a","l","s"," ">>),
   Str(S_between), Str(<<"s","t","a","r","t","s","w","i","t","h">>),
   Undefined, Null, Str(<<>>), Num(5),
   CondObj(Str(S_gte), Undefined), CondObj(Undefined, Str(S_gte)),
   CondObj(Undefined, Undefined),
   CondObj(Str(<<"S","t","a","r","t","s"," ","W","i","t","h">>), Undefined)}

Locales == {"en", "hi"}

\* the en parts the single-pair operations are called with
EnSchemas ==
  {En(NoEligibility)}
    \cup {En(Eligibility(items)) : items \in SeqsUpTo(CriteriaUniverse, MaxCriteria)}

\* the schema documents the batch over schemas is called with
BenefitSchemas ==
  {NullSchema, PrimitiveSchema,
   SchemaDoc(Str(<<"s","1">>), NoEn),
   SchemaDoc(Str(<<"s","2">>), En(NoEligibility)),
   SchemaDoc(Str(<<"s","3">>), En(Eligibility(<<>>))),
   SchemaDoc(Str(<<"s","4">>), En(Eligibility(<<AgeGte>>))),
   SchemaDoc(Str(<<"s","5">>), En(Eligibility(<<NameEquals, AgeGated>>))),
   SchemaDoc(Undefined, En(Eligibility(<<AgeGteShort>>))),
   SchemaDoc(Str(<<"s","7">>), En(Eligibility(<<AgeGatedBad>>))),
   SchemaDoc(Undefined, En(Eligibility(<<AgeGte, AgeGatedBad>>)))}

\* the schemes the batch over users is called with
Schemes ==
  {SchemaDoc(Str(<<"s","3">>), En(Eligibility(<<>>))),
   SchemaDoc(Str(<<"s","4">>), En(Eligibility(<<AgeGte>>))),
   SchemaDoc(Str(<<"s","5">>), En(Eligibility(<<NameEquals, AgeGated>>))),
   SchemaDoc(Str(<<"s","6">>), En(Eligibility(<<AgeGteShort>>))),
   SchemaDoc(Str(<<"s","8">>), En(Eligibility(<<AgeGteCaps>>))),
   SchemaDoc(Str(<<"s","9">>), En(Eligibility(<<NameIn, AgeBadBetween>>))),
   SchemaDoc(Str(<<"s","1","0">>), En(Eligibility(<<AgeStartsWith>>)))}

-----------------------------------------------------------------------------
(* The state machine: one operation runs at a time, from its call to the    *)
(* moment it settles; Finish takes the service back to idle.                *)

NoResults == [eligible |-> <<>>, ineligible |-> <<>>, errors |-> <<>>]
NoUserResults == [eligibleUsers |-> <<>>, ineligibleUsers |-> <<>>]
NoArgs == [op |-> "none"]

\* an evaluation in flight: the method, its arguments, where it stands
\* ("idle", "loop", "condition", "done") and its local variables
IdleTask ==
  [op |-> "none", input |-> NoArgs, st |-> "idle", i |-> 1, reasons |-> <<>>,
   ret |-> NotSettled]

Init ==
  /\ pc = "idle"
  /\ args = NoArgs
  /\ i = 1
  /\ reasons = <<>>
  /\ calls = <<>>
  /\ results = NoResults
  /\ routed = <<>>
  /\ ret = NotSettled
  /\ i18nLocale = "en"
  /\ tasks = [t \in 1..MaxTasks |-> IdleTask]

Start(op, a, rs) ==
  /\ pc' = op
  /\ args' = a
  /\ results' = rs
  /\ UNCHANGED <<i, reasons, calls, routed, ret, i18nLocale, tasks>>

Settle(r) ==
  /\ pc' = "done"
  /\ ret' = r

\* eligibilityService.checkSchemaEligibility(userProfile, schema, customRules)
CallCheckSchemaEligibility ==
  /\ pc = "idle"
  /\ \E userProfile \in Profiles, schema \in EnSchemas :
       Start("checkSchemaEligibility",
             [op |-> "checkSchemaEligibility", userProfile |-> userProfile,
              schema |-> schema, items |-> schema.eligibility.items],
             NoResults)

\* eligibilityService.checkUserEligibility(userProfile, scheme)
CallCheckUserEligibility ==
  /\ pc = "idle"
  /\ \E userProfile \in Profiles, schema \in EnSchemas :
       Start("checkUserEligibility",
             [op |-> "checkUserEligibility", userProfile |-> userProfile,
              scheme |-> SchemaDoc(Str(<<"s">>), schema),
              schema |-> schema, items |-> schema.eligibility.items],
             NoResults)

\* checkSchemaEligibility, lines 272-277: no eligibility array
SchemaEligibilityNoCriteria ==
  /\ pc = "checkSchemaEligibility"
  /\ args.schema.eligibility.kind # "array"
  /\ Settle(Resolved(noCriteriaVerdict))
  /\ UNCHANGED <<args, i, reasons, calls, results, routed, i18nLocale, tasks>>

\* checkUserEligibility, line 482: enSchema.eligibility is not iterable
UserEligibilityNoCriteria ==
  /\ pc = "checkUserEligibility"
  /\ args.schema.eligibility.kind # "array"
  /\ Settle(Rejected(Error("TypeError", "", <<>>)))
  /\ UNCHANGED <<args, i, reasons, calls, results, routed, i18nLocale, tasks>>

\* a loop over the criteria that ends at the first reason it pushes
ApplyOutcome_breaksOnReason(o) ==
  /\ calls' = IF o.called THEN Append(calls, i) ELSE calls
  /\ IF o.kind = "throw"
       THEN /\ Settle(Rejected(o.error))
            /\ UNCHANGED <<i, reasons>>
       ELSE /\ i' = IF o.kind = "reason" THEN Len(args.items) + 1 ELSE i + 1
            /\ reasons' = IF o.kind = "reason" THEN Append(reasons, o.reason)
                          ELSE reasons
            /\ UNCHANGED <<pc, ret>>

\* what one pass of the loop over the criteria leaves behind
ApplyOutcome(o) ==
  /\ calls' = IF o.called THEN Append(calls, i) ELSE calls
  /\ IF o.kind = "throw"
       THEN /\ Settle(Rejected(o.error))
            /\ UNCHANGED <<i, reasons>>
       ELSE /\ i' = i + 1
            /\ reasons' = IF o.kind = "reason" THEN Append(reasons, o.reason)
                          ELSE reasons
            /\ UNCHANGED <<pc, ret>>

\* what one pass of the loop of a batch leaves behind
ApplyPass(o) ==
  IF o.kind = "throw"
    THEN /\ Settle(Rejected(o.error))
         /\ UNCHANGED <<i, results, routed>>
    ELSE /\ i' = i + 1
         /\ results' = o.results
         /\ routed' = Append(routed, o.bucket)
         /\ UNCHANGED <<pc, ret>>

\* one pass of the loop over the criteria, up to the next criterion
CriterionStep(mode) ==
  /\ args.schema.eligibility.kind = "array"
  /\ i <= Len(args.items)
  /\ ApplyOutcome(criterionOutcome(args.userProfile, args.items[i], mode))
  /\ UNCHANGED <<args, results, routed, i18nLocale, tasks>>

SchemaEligibilityStep == pc = "checkSchemaEligibility" /\ CriterionStep("schema")

UserEligibilityStep == pc = "checkUserEligibility" /\ CriterionStep("user")

\* checkSchemaEligibility, lines 354-357
SchemaEligibilityReturn ==
  /\ pc = "checkSchemaEligibility"
  /\ args.schema.eligibility.kind = "array"
  /\ i > Len(args.items)
  /\ Settle(Resolved(schemaVerdict(reasons)))
  /\ UNCHANGED <<args, i, reasons, calls, results, routed, i18nLocale, tasks>>

\* checkUserEligibility, lines 520-531
UserEligibilityReturn ==
  /\ pc = "checkUserEligibility"
  /\ args.schema.eligibility.kind = "array"
  /\ i > Len(args.items)
  /\ Settle(Resolved(userVerdict(reasons)))
  /\ UNCHANGED <<args, i, reasons, calls, results, routed, i18nLocale, tasks>>

\* eligibilityService.checkEligibility(userProfile, benefitSchemas)
CallCheckEligibility ==
  /\ pc = "idle"
  /\ \E userProfile \in Profiles, benefitSchemas \in SeqsUpTo(BenefitSchemas, MaxSchemas) :
       Start("checkEligibility",
             [op |-> "checkEligibility", userProfile |-> userProfile,
              items |-> benefitSchemas],
             \* const results = { eligible: [], ineligible: [], errors: [] }
             NoResults)

\* one pass of the loop of checkEligibility
CheckEligibilityStep ==
  /\ pc = "checkEligibility"
  /\ i <= Len(args.items)
  /\ ApplyPass(eligibilityPass(results, args.userProfile, args.items[i]))
  /\ UNCHANGED <<args, reasons, calls, i18nLocale, tasks>>

\* checkEligibility, line 187
CheckEligibilityReturn ==
  /\ pc = "checkEligibility"
  /\ i > Len(args.items)
  /\ Settle(Resolved(results))
  /\ UNCHANGED <<args, i, reasons, calls, results, routed, i18nLocale, tasks>>

\* eligibilityService.checkUsersEligibility(userProfiles, scheme)
CallCheckUsersEligibility ==
  /\ pc = "idle"
  /\ \E userProfiles \in SeqsUpTo(Profiles, MaxUsers), scheme \in Schemes :
       Start("checkUsersEligibility",
             [op |-> "checkUsersEligibility", scheme |-> scheme,
              items |-> userProfiles],
             \* const results = { eligibleUsers: [], ineligibleUsers: [] }
             NoUserResults)

\* one pass of the loop of checkUsersEligibility
CheckUsersEligibilityStep ==
  /\ pc = "checkUsersEligibility"
  /\ i <= Len(args.items)
  /\ ApplyPass(usersPass(results, args.items[i], args.scheme))
  /\ UNCHANGED <<args, reasons, calls, i18nLocale, tasks>>

\* checkUsersEligibility, line 596
CheckUsersEligibilityReturn ==
  /\ pc = "checkUsersEligibility"
  /\ i > Len(args.items)
  /\ Settle(Resolved(results))
  /\ UNCHANGED <<args, i, reasons, calls, results, routed, i18nLocale, tasks>>

\* checkCriteria(userValue, condition, conditionValues, locale): the executor
\* of its promise runs to resolve or reject within the call
CallCheckCriteria ==
  /\ pc = "idle"
  /\ \E userValue \in UserValues, condition \in Conditions,
        conditionValues \in ConditionValues, locale \in Locales :
       /\ args' = [op |-> "checkCriteria", userValue |-> userValue,
                   condition |-> condition, conditionValues |-> conditionValues,
                   locale |-> locale]
       /\ Settle(checkCriteria(userValue, condition, conditionValues, locale))
       /\ i18nLocale' = localeAfterCheckCriteria(i18nLocale, condition,
                                                 conditionValues, locale)
  /\ UNCHANGED <<i, reasons, calls, results, routed, tasks>>

\* eligibilityService.checkCriterion(userValue, condition, conditionValues)
CallCheckCriterion ==
  /\ pc = "idle"
  /\ \E userValue \in UserValues, condition \in Conditions,
        conditionValues \in ConditionValues :
       /\ args' = [op |-> "checkCriterion", userValue |-> userValue,
                   condition |-> condition, conditionValues |-> conditionValues]
       /\ Settle(checkCriterion(userValue, condition, conditionValues))
  /\ UNCHANGED <<i, reasons, calls, results, routed, i18nLocale, tasks>>

\* the caller takes the settled promise; the service is idle again
Finish ==
  /\ pc = "done"
  /\ pc' = "idle"
  /\ args' = NoArgs
  /\ i' = 1
  /\ reasons' = <<>>
  /\ calls' = <<>>
  /\ results' = NoResults
  /\ routed' = <<>>
  /\ ret' = NotSettled
  /\ UNCHANGED <<i18nLocale, tasks>>

Next ==
  \/ CallCheckCriteria
  \/ CallCheckCriterion
  \/ CallCheckSchemaEligibility
  \/ SchemaEligibilityNoCriteria
  \/ SchemaEligibilityStep
  \/ SchemaEligibilityReturn
  \/ CallCheckUserEligibility
  \/ UserEligibilityNoCriteria
  \/ UserEligibilityStep
  \/ UserEligibilityReturn
  \/ CallCheckEligibility
  \/ CheckEligibilityStep
  \/ CheckEligibilityReturn
  \/ CallCheckUsersEligibility
  \/ CheckUsersEligibilityStep
  \/ CheckUsersEligibilityReturn
  \/ Finish

Spec == Init /\ [][Next]_vars

-----------------------------------------------------------------------------
(* Evaluations in flight at once.  Each call of an async method has its own *)
(* locals; it gives way to the other calls at each await (the document      *)
(* check and the call of checkCriterion of each pass of the loop).          *)
(* checkCriteria runs the executor of its promise within the call.  What    *)
(* the calls share is the i18n module and its current locale.               *)

TaskProfiles ==
  {Profile(Num(16), Str(S_John), "verified"), Profile(Undefined, Str(S_john), "absent")}

TaskSchemas ==
  {En(NoEligibility),
   En(Eligibility(<<AgeGated, NameEquals>>)),
   En(Eligibility(<<AgeGte, AgeBadBetween>>))}

TaskCriteriaCalls ==
  {[userValue |-> Num(18), condition |-> Str(S_gte), conditionValues |-> Num(9)],
   [userValue |-> Num(18), condition |-> Undefined, conditionValues |-> Num(9)],
   [userValue |-> Num(18), condition |-> Str(S_between), conditionValues |-> Num(9)]}

seqVars == <<pc, args, i, reasons, calls, results, routed, ret>>

SetTask(t, task) == tasks' = [tasks EXCEPT ![t] = task]

\* the task settles
TaskSettled(task, r) == [task EXCEPT !.st = "done", !.ret = r]

\* a call of checkSchemaEligibility starts; without an eligibility array it
\* returns at once (lines 272-277)
TaskCallCheckSchemaEligibility(t) ==
  /\ tasks[t].st = "idle"
  /\ \E userProfile \in TaskProfiles, schema \in TaskSchemas :
       LET task == [op |-> "checkSchemaEligibility",
                    input |-> [userProfile |-> userProfile, schema |-> schema],
                    st |-> "loop", i |-> 1, reasons |-> <<>>, ret |-> NotSettled]
       IN SetTask(t, IF schema.eligibility.kind # "array"
                       THEN TaskSettled(task, Resolved(noCriteriaVerdict))
                       ELSE task)
  /\ UNCHANGED <<seqVars, i18nLocale>>

\* what one pass leaves in the locals of the task
TaskAfter(task, o) ==
  IF o.kind = "throw" THEN TaskSettled(task, Rejected(o.error))
  ELSE [task EXCEPT !.st = "loop", !.i = @ + 1,
                    !.reasons = IF o.kind = "reason" THEN Append(@, o.reason) ELSE @]

\* the pass of the loop up to the call of checkCriterion (lines 307-337):
\* the field, then the awaited document check
TaskGateOutcome(t, task, o) ==
  /\ SetTask(t, IF o.called THEN [task EXCEPT !.st = "condition"]
                ELSE TaskAfter(task, o))
  /\ UNCHANGED <<seqVars, i18nLocale>>

TaskGate(t) ==
  /\ tasks[t].st = "loop"
  /\ tasks[t].i <= Len(tasks[t].input.schema.eligibility.items)
  /\ TaskGateOutcome(t, tasks[t],
                     criterionOutcome(tasks[t].input.userProfile,
                                      tasks[t].input.schema.eligibility.items[tasks[t].i],
                                      "schema"))

\* the awaited checkCriterion and what follows it (lines 338-350)
TaskCondition(t) ==
  /\ tasks[t].st = "condition"
  /\ SetTask(t, TaskAfter(tasks[t],
                          criterionOutcome(tasks[t].input.userProfile,
                                           tasks[t].input.schema.eligibility.items[tasks[t].i],
                                           "schema")))
  /\ UNCHANGED <<seqVars, i18nLocale>>

\* lines 354-357
TaskReturn(t) ==
  /\ tasks[t].st = "loop"
  /\ tasks[t].i > Len(tasks[t].input.schema.eligibility.items)
  /\ SetTask(t, TaskSettled(tasks[t], Resolved(schemaVerdict(tasks[t].reasons))))
  /\ UNCHANGED <<seqVars, i18nLocale>>

\* a call of checkCriteria: the promise is settled when the call returns
TaskCallCheckCriteria(t) ==
  /\ tasks[t].st = "idle"
  /\ \E a \in TaskCriteriaCalls, locale \in Locales :
       /\ SetTask(t, [op |-> "checkCriteria",
                      input |-> [userValue |-> a.userValue, condition |-> a.condition,
                                 conditionValues |-> a.conditionValues,
                                 locale |-> locale],
                      st |-> "done", i |-> 1, reasons |-> <<>>,
                      ret |-> checkCriteria(a.userValue, a.condition,
                                            a.conditionValues, locale)])
       /\ i18nLocale' = localeAfterCheckCriteria(i18nLocale, a.condition,
                                                 a.conditionValues, locale)
  /\ UNCHANGED seqVars

\* the caller takes the settled promise of the task
TaskFinish(t) ==
  /\ tasks[t].st = "done"
  /\ SetTask(t, IdleTask)
  /\ UNCHANGED <<seqVars, i18nLocale>>

NextConcurrent ==
  \E t \in 1..MaxTasks :
    \/ TaskCallCheckSchemaEligibility(t)
    \/ TaskGate(t)
    \/ TaskCondition(t)
    \/ TaskReturn(t)
    \/ TaskCallCheckCriteria(t)
    \/ TaskFinish(t)

SpecConcurrent == Init /\ [][NextConcurrent]_vars

-----------------------------------------------------------------------------
(* Properties.                                                              *)

Done(op) == pc = "done" /\ args.op = op
SinglePairOps == {"checkSchemaEligibility", "checkUserEligibility"}
ModeOf(op) == IF op = "checkSchemaEligibility" THEN "schema" ELSE "user"
HasCriteria == args.schema.eligibility.kind = "array"

\* the bucket of checkEligibility a schema belongs in: errors when it fails
\* the structural validation or its evaluation raises, else by its verdict
ExpectedBucket(userProfile, schema) ==
  IF ~validateBenefitSchema(schema) THEN "errors"
  ELSE IF checkSchemaEligibility(userProfile, schema.en).kind = "rejected" THEN "errors"
  ELSE IF checkSchemaEligibility(userProfile, schema.en).value.isEligible THEN "eligible"
  ELSE "ineligible"

\* C1: checkEligibility returns a result for every list of schemas, and every
\* schema of the list is in exactly one of eligible / ineligible / errors:
\* errors when it is malformed or its evaluation raises, else by its verdict.
C1_EverySchemaInOneBucket ==
  Done("checkEligibility") =>
    /\ ret.kind = "resolved"
    /\ Len(ret.value.eligible) + Len(ret.value.ineligible) + Len(ret.value.errors)
         = Len(args.items)
    /\ Len(routed) = Len(args.items)
    /\ \A k \in 1..Len(args.items) :
         routed[k] = ExpectedBucket(args.userProfile, args.items[k])

\* the bucket of checkUsersEligibility a user belongs in
ExpectedUserBucket(userProfile, scheme) ==
  IF checkUserEligibility(userProfile, scheme).kind = "rejected" THEN "errors"
  ELSE IF checkUserEligibility(userProfile, scheme).value.isEligible THEN "eligibleUsers"
  ELSE "ineligibleUsers"

\* C2: a user whose evaluation raises does not abort checkUsersEligibility:
\* the call returns a result, and every user before and after the failing
\* one is evaluated and routed.
C2_FailingUserIsolated ==
  Done("checkUsersEligibility") =>
    /\ ret.kind = "resolved"
    /\ Len(routed) = Len(args.items)
    /\ \A k \in 1..Len(args.items) :
         ExpectedUserBucket(args.items[k], args.scheme) # "errors"
           => routed[k] = ExpectedUserBucket(args.items[k], args.scheme)

\* some criterion of the running single-pair evaluation produces a reason
SomeCriterionGivesReason ==
  \E k \in 1..Len(args.items) :
    criterionOutcome(args.userProfile, args.items[k], ModeOf(args.op)).kind = "reason"

\* C3, as claimed: every verdict of checkSchemaEligibility and of
\* checkUserEligibility has an empty reasons sequence iff it is eligible, and
\* is eligible iff no criterion of the schema produced a reason.
C3_ReasonsEmptyIffEligible ==
  (pc = "done" /\ args.op \in SinglePairOps /\ ret.kind = "resolved") =>
    /\ ret.value.reasons = Arr(<<>>) <=> ret.value.isEligible
    /\ ret.value.isEligible <=> ~SomeCriterionGivesReason

\* C3, amended: a verdict of checkUserEligibility has an empty reasons
\* sequence iff it is eligible; a verdict of checkSchemaEligibility has
\* reasons null iff it is eligible and a non-empty sequence otherwise; for a
\* schema with an eligibility array the verdict is eligible iff no criterion
\* produced a reason, and for a schema without one checkSchemaEligibility
\* answers ineligible with the one reason that no criteria are defined.
C3_ReasonsNullOrEmptyIffEligible ==
  (pc = "done" /\ args.op \in SinglePairOps /\ ret.kind = "resolved") =>
    IF ~HasCriteria
      THEN /\ args.op = "checkSchemaEligibility"
           /\ ~ret.value.isEligible
           /\ ret.value.reasons.t = "array"
           /\ Len(ret.value.reasons.v) = 1
           /\ ret.value.reasons.v[1].kind = "NoCriteriaDefined"
      ELSE /\ ret.value.isEligible <=> ~SomeCriterionGivesReason
           /\ IF args.op = "checkUserEligibility"
                THEN /\ ret.value.reasons.t = "array"
                     /\ ret.value.reasons.v = <<>> <=> ret.value.isEligible
                ELSE /\ ret.value.reasons = Null <=> ret.value.isEligible
                     /\ ~ret.value.isEligible =>
                          /\ ret.value.reasons.t = "array"
                          /\ Len(ret.value.reasons.v) > 0

\* an eligible verdict of each single-pair operation over a schema with
\* criteria
C3_Witness ==
  /\ pc = "done"
  /\ args.op = "checkSchemaEligibility"
  /\ ret.kind = "resolved"
  /\ HasCriteria
  /\ Len(args.items) = MaxCriteria
  /\ ret.value.isEligible
  /\ ret.value.reasons = Null

InSinglePair == pc \in SinglePairOps \/ (pc = "done" /\ args.op \in SinglePairOps)

FieldOf(userProfile, criterion) == userProfile.fields[criterion.criteria.name]
FieldPresent(userProfile, criterion) == FieldOf(userProfile, criterion) # Undefined

\* the subject holds a verified document of one of the criterion's proof types
HasVerifiedProof(userProfile, criterion) ==
  \E k \in 1..Len(criterion.allowedProofs.proofs) :
    userProfile.documents[criterion.allowedProofs.proofs[k]] = "verified"

\* the criterion names proof types and the subject has a verified document
\* of none of them
DocumentMissing(userProfile, criterion) ==
  /\ criterion.allowedProofs.kind = "array"
  /\ Len(criterion.allowedProofs.proofs) > 0
  /\ ~HasVerifiedProof(userProfile, criterion)

EvaluatorResult(userProfile, criterion) ==
  checkCriterion(FieldOf(userProfile, criterion), criterion.criteria.condition,
                 criterion.criteria.conditionValues)

\* how a criterion fails for a subject, "none" when it passes
FailureKind(userProfile, criterion) ==
  IF ~FieldPresent(userProfile, criterion) THEN "MissingField"
  ELSE IF DocumentMissing(userProfile, criterion) THEN "DocumentInvalid"
  ELSE IF EvaluatorResult(userProfile, criterion) = Resolved(FALSE) THEN "ConditionFailed"
  ELSE "none"

\* the positions of the failing criteria, in the schema's order
FailingPositions(userProfile, items) ==
  SelectSeq([k \in 1..Len(items) |-> k],
            LAMBDA k : FailureKind(userProfile, items[k]) # "none")

ReasonsOf(verdict) == IF verdict.reasons = Null THEN <<>> ELSE verdict.reasons.v

\* the reason names its criterion, and for a failed condition of
\* checkSchemaEligibility the observed value, the required value and the
\* operator
ReasonNames(op, reason, userProfile, criterion) ==
  /\ reason.kind = FailureKind(userProfile, criterion)
  /\ reason.type = criterion.type
  /\ reason.field = criterion.criteria.name
  /\ reason.description = criterion.description
  /\ (op = "checkSchemaEligibility" /\ reason.kind = "ConditionFailed") =>
       /\ reason.userValue = FieldOf(userProfile, criterion)
       /\ reason.requiredValue = criterion.criteria.conditionValues
       /\ reason.condition = criterion.criteria.condition

ReasonsMatch(op, rs, userProfile, items, positions) ==
  /\ Len(rs) = Len(positions)
  /\ \A j \in 1..Len(rs) : ReasonNames(op, rs[j], userProfile, items[positions[j]])

\* C4: a single-pair evaluation that returns a verdict has processed every
\* criterion of the schema, and its reasons are exactly one reason for each
\* failing criterion (missing field, missing document, condition false), in
\* the schema's order, none for a passing criterion; a failed-condition reason
\* of checkSchemaEligibility names category, field, description, observed
\* value, required value and operator of its criterion.
C4_NoShortCircuit ==
  (pc = "done" /\ args.op \in SinglePairOps /\ ret.kind = "resolved" /\ HasCriteria) =>
    /\ i = Len(args.items) + 1
    /\ ReasonsMatch(args.op, ReasonsOf(ret.value), args.userProfile, args.items,
                    FailingPositions(args.userProfile, args.items))

\* a verdict with one reason for each of several failing criteria, the first
\* of them a failed condition
C4_Witness ==
  /\ pc = "done"
  /\ args.op = "checkSchemaEligibility"
  /\ ret.kind = "resolved"
  /\ HasCriteria
  /\ Len(args.items) = MaxCriteria
  /\ Len(ReasonsOf(ret.value)) = MaxCriteria
  /\ ret.value.reasons.v[1].kind = "ConditionFailed"

\* the criteria before position n whose field the subject lacks
AbsentBefore(n) ==
  SelectSeq([k \in 1..(n - 1) |-> k],
            LAMBDA k : ~FieldPresent(args.userProfile, args.items[k]))

MissingFieldReasons == SelectSeq(reasons, LAMBDA r : r.kind = "MissingField")

\* the pass over a criterion whose field is absent: one MissingField reason,
\* no call of the evaluator, no error, and the loop goes on
MissingFieldPass ==
  (pc \in SinglePairOps /\ HasCriteria /\ i <= Len(args.items)
     /\ ~FieldPresent(args.userProfile, args.items[i])) =>
    /\ pc' = pc
    /\ ret' = NotSettled
    /\ i' = i + 1
    /\ calls' = calls
    /\ Len(reasons') = Len(reasons) + 1
    /\ SubSeq(reasons', 1, Len(reasons)) = reasons
    /\ reasons'[Len(reasons')].kind = "MissingField"
    /\ reasons'[Len(reasons')].field = args.items[i].criteria.name

\* the criteria passed so far gave a MissingField reason exactly where the
\* field is undefined (0 is present), the evaluator was called for none of
\* those, and an error never comes from one of those
MissingFieldOnlyWhenAbsent ==
  (InSinglePair /\ HasCriteria) =>
    /\ Len(MissingFieldReasons) = Len(AbsentBefore(i))
    /\ \A j \in 1..Len(MissingFieldReasons) :
         MissingFieldReasons[j].field = args.items[AbsentBefore(i)[j]].criteria.name
    /\ \A j \in 1..Len(calls) : FieldPresent(args.userProfile, args.items[calls[j]])
    /\ ret.kind = "rejected" => FieldPresent(args.userProfile, args.items[i])
    /\ (pc = "done" /\ ret.kind = "resolved") => i = Len(args.items) + 1

\* C5: a criterion whose field is undefined in the subject never makes the
\* evaluation throw, whatever its operator and operands: it gives exactly one
\* MissingField reason, checkCriterion is not called for it, and the criteria
\* after it are still evaluated; 0 counts as present.
C5_MissingFieldNeverThrows ==
  []MissingFieldOnlyWhenAbsent /\ [][MissingFieldPass]_vars

\* a criterion with an absent field and no usable operator has been passed
\* and the criterion after it has been evaluated
C5_Witness ==
  /\ pc \in SinglePairOps
  /\ HasCriteria
  /\ i = 3
  /\ ~FieldPresent(args.userProfile, args.items[1])
  /\ EvaluatorResult(args.userProfile, args.items[1]).kind = "rejected"
  /\ calls = <<2>>
  /\ Len(reasons) = 2

\* the subject has the field, the document gate (if any) lets the criterion
\* through, and checkCriterion raises
EvaluatorRaises(userProfile, criterion) ==
  /\ FieldPresent(userProfile, criterion)
  /\ criterion.allowedProofs.kind \in {"undefined", "array"}
  /\ ~DocumentMissing(userProfile, criterion)
  /\ EvaluatorResult(userProfile, criterion).kind = "rejected"

\* the pass over a criterion whose evaluation raises ends the evaluation with
\* that error and adds no reason
RaisingPass ==
  (pc \in SinglePairOps /\ HasCriteria /\ i <= Len(args.items)
     /\ EvaluatorRaises(args.userProfile, args.items[i])) =>
    /\ pc' = "done"
    /\ ret' = Rejected(EvaluatorResult(args.userProfile, args.items[i]).error)
    /\ reasons' = reasons

\* no verdict is returned for a pair one of whose criteria raises
NoVerdictWhenRaising ==
  (pc = "done" /\ args.op \in SinglePairOps /\ HasCriteria /\ ret.kind = "resolved") =>
    \A k \in 1..Len(args.items) : ~EvaluatorRaises(args.userProfile, args.items[k])

\* C6: an error checkCriterion raises for a criterion whose field is present
\* is fatal to the single-pair evaluation: the evaluation fails with that
\* error, no reason is made of it, and no verdict is returned, whatever the
\* criteria before it gave.
C6_EvaluatorErrorIsFatal ==
  []NoVerdictWhenRaising /\ [][RaisingPass]_vars

\* an evaluation rejected with the evaluator's error at its last criterion,
\* after a failing criterion
C6_Witness ==
  /\ pc = "done"
  /\ args.op \in SinglePairOps
  /\ HasCriteria
  /\ Len(args.items) = MaxCriteria
  /\ i = MaxCriteria
  /\ Len(reasons) = MaxCriteria - 1
  /\ EvaluatorRaises(args.userProfile, args.items[i])
  /\ ret = Rejected(EvaluatorResult(args.userProfile, args.items[i]).error)

\* the comparison the operator of the criterion spells: equals, in, greater
\* than equals or less than equals; "" when it spells none of them
ComparisonOf(criterion) ==
  LET cs == criterionConditionStr(criterion.criteria.condition) IN
  IF cs.kind # "resolved" THEN ""
  ELSE IF cs.value = S_equals THEN "="
  ELSE IF cs.value = S_in THEN "in"
  ELSE IF cs.value \in {S_greater_than_equals, S_greater_than_equals_u, S_gte} THEN ">="
  ELSE IF cs.value \in {S_less_than_equals, S_less_than_equals_u, S_lte} THEN "<="
  ELSE ""

\* the reason string of a failed comparison states the required and the
\* observed value
StatesRequiredAndGot(reason, userProfile, criterion) ==
  (reason.kind = "ConditionFailed" /\ ComparisonOf(criterion) # "") =>
    /\ reason.op = ComparisonOf(criterion)
    /\ reason.got = JsString(FieldOf(userProfile, criterion))
    /\ reason.required =
         IF IsArray(criterion.criteria.conditionValues)
           THEN Join(criterion.criteria.conditionValues.v, <<",", " ">>)
           ELSE JsString(criterion.criteria.conditionValues)

\* the entry of an ineligible user: the user's attributes and one reason
\* string for each failing criterion, in the scheme's order
IneligibleEntryOf(entry, userProfile, items) ==
  /\ entry.userProfile = userProfile
  /\ ReasonsMatch("checkUsersEligibility", entry.reasons, userProfile, items,
                  FailingPositions(userProfile, items))
  /\ \A j \in 1..Len(entry.reasons) :
       StatesRequiredAndGot(entry.reasons[j], userProfile,
                            items[FailingPositions(userProfile, items)[j]])

\* the users of the batch that fail some criterion of the scheme, in the
\* order of the batch
FailingUsers(userProfiles, items) ==
  SelectSeq(userProfiles, LAMBDA u : Len(FailingPositions(u, items)) > 0)

PassingUsers(userProfiles, items) ==
  SelectSeq(userProfiles, LAMBDA u : Len(FailingPositions(u, items)) = 0)

\* every criterion of the scheme spells one of the comparisons
ComparisonsOnly(items) == \A k \in 1..Len(items) : ComparisonOf(items[k]) # ""

\* C7: for a scheme of comparisons (equals, in, gte, lte, in any accepted
\* spelling) checkUsersEligibility routes every user of the list to eligibleUsers
\* (iff no criterion of the scheme fails for the user) or to ineligibleUsers;
\* an entry carries the user's attributes, an ineligible entry one reason
\* string for each failed criterion in the scheme's order, and the string of a
\* failed comparison states the required and the observed value for every
\* accepted spelling of the operator (age 16 and age 20 against age gte 18:
\* the age-20 user is eligible, the age-16 user ineligible with
\* "Required: >= 18, Got: 16").
C7_UsersRoutedWithReasons ==
  (Done("checkUsersEligibility") /\ args.scheme.en.eligibility.kind = "array"
     /\ ComparisonsOnly(args.scheme.en.eligibility.items)) =>
    /\ ret.kind = "resolved"
    /\ Len(ret.value.eligibleUsers) + Len(ret.value.ineligibleUsers) = Len(args.items)
    /\ LET items == args.scheme.en.eligibility.items
           passing == PassingUsers(args.items, items)
           failing == FailingUsers(args.items, items)
       IN /\ Len(ret.value.eligibleUsers) = Len(passing)
          /\ \A j \in 1..Len(passing) :
               ret.value.eligibleUsers[j].userProfile = passing[j]
          /\ Len(ret.value.ineligibleUsers) = Len(failing)
          /\ \A j \in 1..Len(failing) :
               IneligibleEntryOf(ret.value.ineligibleUsers[j], failing[j], items)

\* the criterion at position i names proof types (declared(criterion) says
\* which lists count) and the subject has the field
GatedCriterionNext(declared(_)) ==
  /\ pc \in SinglePairOps
  /\ HasCriteria
  /\ i <= Len(args.items)
  /\ args.items[i].allowedProofs.kind = "array"
  /\ declared(args.items[i])
  /\ FieldPresent(args.userProfile, args.items[i])

Ungated(criterion) == [criterion EXCEPT !.allowedProofs = NoProofs]

\* the pass goes as the pass over the outcome o prescribes, with a call of
\* checkCriterion
PassesAs(o) ==
  /\ calls' = Append(calls, i)
  /\ IF o.kind = "throw"
       THEN pc' = "done" /\ ret' = Rejected(o.error) /\ reasons' = reasons
       ELSE /\ pc' = pc /\ ret' = NotSettled /\ i' = i + 1
            /\ reasons' = IF o.kind = "reason" THEN Append(reasons, o.reason)
                          ELSE reasons

\* the pass over a gated criterion: without a verified document of an allowed
\* type one DocumentInvalid reason and no call of checkCriterion, with one
\* the pass of the same criterion without allowedProofs
GatedPass ==
  IF ~HasVerifiedProof(args.userProfile, args.items[i])
    THEN /\ pc' = pc /\ ret' = NotSettled /\ i' = i + 1
         /\ calls' = calls
         /\ Len(reasons') = Len(reasons) + 1
         /\ SubSeq(reasons', 1, Len(reasons)) = reasons
         /\ reasons'[Len(reasons')].kind = "DocumentInvalid"
         /\ reasons'[Len(reasons')].field = args.items[i].criteria.name
    ELSE PassesAs(criterionOutcome(args.userProfile, Ungated(args.items[i]),
                                   ModeOf(args.op)))

AnyList(criterion) == TRUE
NonEmptyList(criterion) == Len(criterion.allowedProofs.proofs) > 0
EmptyList(criterion) == Len(criterion.allowedProofs.proofs) = 0

\* C8, as claimed: for a criterion that declares allowedProofs and whose
\* field the subject has, the aggregator pushes exactly one DocumentInvalid
\* reason and does not call checkCriterion when the subject has no verified
\* document of an allowed type, and otherwise evaluates the condition as for
\* an ungated criterion.
C8_DocumentGateWhenDeclared ==
  [][GatedCriterionNext(AnyList) => GatedPass]_vars

\* C8, amended: the same for a criterion whose allowedProofs names at least
\* one proof type; a criterion whose allowedProofs is the empty list is
\* evaluated as an ungated criterion.
C8_DocumentGateWhenNonEmpty ==
  /\ [][GatedCriterionNext(NonEmptyList) => GatedPass]_vars
  /\ [][GatedCriterionNext(EmptyList) =>
          PassesAs(criterionOutcome(args.userProfile, Ungated(args.items[i]),
                                    ModeOf(args.op)))]_vars

\* a gated criterion has been refused for want of a verified document, and
\* a gated criterion with one has been evaluated and failed its condition
C8_Witness ==
  /\ pc \in SinglePairOps
  /\ HasCriteria
  /\ i = 3
  /\ NonEmptyList(args.items[1]) /\ NonEmptyList(args.items[2])
  /\ HasVerifiedProof(args.userProfile, args.items[2])
  /\ calls = <<2>>
  /\ Len(reasons) = 2
  /\ reasons[1].kind = "DocumentInvalid"
  /\ reasons[2].kind = "ConditionFailed"

\* n, whichever of its forms x is; NumPool has no such n when x is none
NumberOf(x) == CHOOSE n \in NumPool : x \in NumericForms(n)

BothNumeric == args.userValue \in NumericValues /\ args.conditionValues \in NumericValues

\* the evaluator resolved to the truth of the relation between the numbers
ResolvedTo(b) == ret = Resolved(b)

\* checkCriteria on two numeric operands, under each of the four tags
CriteriaNumericLaws ==
  (Done("checkCriteria") /\ BothNumeric) =>
    LET a == NumberOf(args.userValue)
        b == NumberOf(args.conditionValues)
    IN /\ args.condition = Str(S_gte) => ResolvedTo(a >= b)
       /\ args.condition = Str(S_lte) => ResolvedTo(a <= b)
       /\ args.condition = Str(S_gt) => ResolvedTo(a > b)
       /\ args.condition = Str(S_lt) => ResolvedTo(a < b)

\* gt answers the opposite of lte and lt the opposite of gte
CriteriaNegations ==
  (Done("checkCriteria") /\ BothNumeric /\ args.condition \in {Str(S_gt), Str(S_lt)}) =>
    /\ ret.kind = "resolved"
    /\ ret.value = ~checkCriteria(args.userValue,
                                  IF args.condition = Str(S_gt) THEN Str(S_lte)
                                  ELSE Str(S_gte),
                                  args.conditionValues, args.locale).value

\* checkCriterion on two numeric operands, under its spellings of gte and lte
CriterionNumericLaws ==
  (Done("checkCriterion") /\ BothNumeric) =>
    LET a == NumberOf(args.userValue)
        b == NumberOf(args.conditionValues)
    IN /\ args.condition \in {Str(S_greater_than_equals), Str(S_greater_than_equals_u)}
            => ResolvedTo(a >= b)
       /\ args.condition = Str(S_less_than_equals) => ResolvedTo(a <= b)

IsPlainString(x) == x.t = "string" /\ x.v \in PlainStrings

EqualIgnoringCase(x, y) == ToLowerCase(x.v) = ToLowerCase(y.v)

\* the criterion asks for equals on a field that holds a plain string, with
\* a plain string operand, and no document gate is in the way
PlainEquals(userProfile, criterion) ==
  /\ criterion.criteria.condition = Str(S_equals)
  /\ criterion.allowedProofs.kind = "undefined"
  /\ FieldPresent(userProfile, criterion)
  /\ IsPlainString(FieldOf(userProfile, criterion))
  /\ IsPlainString(criterion.criteria.conditionValues)

\* C10: equals is case-insensitive on strings that neither parse as numbers
\* nor spell a boolean: the evaluator answers true iff the two are equal
\* after lower-casing ("John" equals "john" is true), and a schema whose one
\* criterion is such an equals gives an eligible verdict iff they are.
C10_EqualsIgnoresCase ==
  /\ (Done("checkCriteria") /\ args.condition = Str(S_equals)
        /\ IsPlainString(args.userValue) /\ IsPlainString(args.conditionValues))
       => ResolvedTo(EqualIgnoringCase(args.userValue, args.conditionValues))
  /\ (pc = "done" /\ args.op \in SinglePairOps /\ HasCriteria /\ Len(args.items) = 1
        /\ PlainEquals(args.userProfile, args.items[1]))
       => /\ ret.kind = "resolved"
          /\ ret.value.isEligible
               <=> EqualIgnoringCase(FieldOf(args.userProfile, args.items[1]),
                                     args.items[1].criteria.conditionValues)

EvaluatorOps == {"checkCriteria", "checkCriterion"}
EvaluatorDone == pc = "done" /\ args.op \in EvaluatorOps

\* the evaluator failed with its error for a between operand of the wrong
\* shape
FailedWithBetweenRequiresArray ==
  /\ ret.kind = "rejected"
  /\ ret.error.msg = IF args.op = "checkCriteria"
                       THEN "errors.betweenConditionRequiresArray"
                       ELSE "Between condition requires an array of two values"

\* the operands [2, 10] of the model, as numbers and as numeric strings
BetweenTwoAndTen == {Arr(<<Num(2), Num(10)>>), Arr(<<Str(<<"2">>), Str(<<"1","0">>)>>)}

\* C11: between needs an operand that is a sequence of exactly two elements:
\* with any other operand (a scalar, a sequence of 0, 1 or 3 elements) the
\* evaluation fails with the between error for every subject value; with the
\* operand [min, max] of two numbers it passes iff min <= subject <= max
\* after coercion, both bounds included.
C11_BetweenNeedsTwoBounds ==
  (EvaluatorDone /\ args.condition = Str(S_between)) =>
    IF ~(IsArray(args.conditionValues) /\ Len(args.conditionValues.v) = 2)
      THEN FailedWithBetweenRequiresArray
      ELSE /\ ret.kind = "resolved"
           /\ (args.conditionValues \in BetweenTwoAndTen
                 /\ args.userValue \in NumericValues)
                => ResolvedTo(2 <= NumberOf(args.userValue)
                                /\ NumberOf(args.userValue) <= 10)
           /\ (args.conditionValues \in BetweenTwoAndTen
                 /\ IsPlainString(args.userValue))
                => ResolvedTo(FALSE)

\* the subject "10" passes between against ["2", "10"]: the upper bound is
\* included and the comparison is one of numbers
C11_Witness ==
  /\ Done("checkCriteria")
  /\ args.condition = Str(S_between)
  /\ args.userValue = Str(<<"1","0">>)
  /\ args.conditionValues = Arr(<<Str(<<"2">>), Str(<<"1","0">>)>>)
  /\ ret = Resolved(TRUE)

S_includes == <<"i","n","c","l","u","d","e","s">>

\* the call of the evaluator that is running, with another operator
EvaluateWith(condition) ==
  IF args.op = "checkCriteria"
    THEN checkCriteria(args.userValue, condition, args.conditionValues, args.locale)
    ELSE checkCriterion(args.userValue, condition, args.conditionValues)

AllNumeric(a) == \A k \in 1..Len(a) : a[k] \in NumericValues
AllPlainStrings(a) == \A k \in 1..Len(a) : IsPlainString(a[k])

\* the subject is a member of the operand sequence once both are coerced to
\* the type of the operand: as numbers, or as lower-cased strings
CoercedMember(x, a) ==
  \/ /\ a # <<>> /\ AllNumeric(a) /\ x \in NumericValues
     /\ \E k \in 1..Len(a) : NumberOf(a[k]) = NumberOf(x)
  \/ /\ a # <<>> /\ AllPlainStrings(a) /\ IsPlainString(x)
     /\ \E k \in 1..Len(a) : EqualIgnoringCase(a[k], x)

\* C12: in / includes is membership after coercion: for a subject that is a
\* number, a numeric string or a plain string and an operand sequence, the
\* evaluation passes iff the coerced subject is an element of the coerced
\* operand sequence (strings without regard to case), and in and includes
\* give the same outcome on all inputs.
C12_InIsCoercedMembership ==
  (EvaluatorDone /\ args.condition \in {Str(S_in), Str(S_includes)}) =>
    /\ ret = EvaluateWith(Str(S_in))
    /\ ret = EvaluateWith(Str(S_includes))
    /\ (IsArray(args.conditionValues)
          /\ (args.userValue \in NumericValues \/ IsPlainString(args.userValue)))
         => ResolvedTo(CoercedMember(args.userValue, args.conditionValues.v))

\* the part of C12 that is about checkCriteria
C12_OnCheckCriteria == args.op = "checkCriteria" => C12_InIsCoercedMembership

\* the string an operator value carries: the value itself, or the condition
\* of an operator object, directly or under criteria; Undefined when it
\* carries no non-empty string
OperatorString(condition) ==
  IF condition.t = "string" /\ condition.v # <<>> THEN condition
  ELSE IF condition.t = "object" /\ condition.v.condition.t = "string"
          /\ condition.v.condition.v # <<>>
    THEN condition.v.condition
  ELSE IF condition.t = "object" /\ condition.v.condition = Undefined
          /\ condition.v.nested.t = "string" /\ condition.v.nested.v # <<>>
    THEN condition.v.nested
  ELSE Undefined

AliasSets ==
  {EqualsAliases, InAliases, GteAliases, LteAliases, GtAliases, LtAliases, {S_between}}

\* lower-cased, trimmed, internal whitespace removed
Normalized(v) == RemoveWhitespace(Trim(ToLowerCase(v)))

\* the canonical form of an operator string: its alias set, or its
\* normalized spelling alone when no alias set has it
Canonical(v) ==
  IF \E A \in AliasSets : Normalized(v) \in A
    THEN CHOOSE A \in AliasSets : Normalized(v) \in A
    ELSE {Normalized(v)}

SameOperator(c, d) ==
  /\ OperatorString(c) # Undefined
  /\ OperatorString(d) # Undefined
  /\ Canonical(OperatorString(c).v) = Canonical(OperatorString(d).v)

\* the operator values of the model that spell the operator c spells
SameOperatorAs == [c \in Conditions |-> {d \in Conditions : SameOperator(c, d)}]

\* C13: the outcome of the evaluator (boolean or error) depends on the
\* operator only through its canonical form: spellings that differ in case or
\* whitespace, aliases of one alias set, and an operator object carrying the
\* string give the same outcome for every subject value and operand.
C13_OutcomeByCanonicalOperator ==
  EvaluatorDone =>
    \A d \in SameOperatorAs[args.condition] : ret = EvaluateWith(d)

\* the part of C13 that is about checkCriteria
C13_OnCheckCriteria == args.op = "checkCriteria" => C13_OutcomeByCanonicalOperator

\* the normalized operator string of each operator value of the model,
\* <<>> for a value that carries none
NormalizedOperator ==
  [c \in Conditions |-> IF OperatorString(c) = Undefined THEN <<>>
                        ELSE Normalized(OperatorString(c).v)]

FailedWith(key, arg) == ret = Rejected(Error(key, args.locale, arg))

OutcomeAlone(task) ==
  IF task.op = "checkSchemaEligibility"
    THEN checkSchemaEligibility(task.input.userProfile, task.input.schema)
    ELSE checkCriteria(task.input.userValue, task.input.condition,
                       task.input.conditionValues, task.input.locale)

\* C15: the outcome of an evaluation (verdict or error, with the locale of
\* the error) is a function of its arguments alone: however the calls in
\* flight interleave at their awaits, each settles as it does when it runs
\* alone, two calls on the same arguments settle alike, and the current
\* locale of the translation module is what it was once a call has returned.
C15_OutcomeOfArgumentsAlone ==
  /\ i18nLocale = "en"
  /\ \A t \in 1..MaxTasks :
       tasks[t].st = "done" => tasks[t].ret = OutcomeAlone(tasks[t])
  /\ \A t, u \in 1..MaxTasks :
       (tasks[t].st = "done" /\ tasks[u].st = "done"
          /\ tasks[t].op = tasks[u].op /\ tasks[t].input = tasks[u].input)
         => tasks[t].ret = tasks[u].ret

\* an evaluation with a reason in hand waits for checkCriterion while a
\* checkCriteria call in another locale has thrown and returned
C15_Witness ==
  \E t, u \in 1..MaxTasks :
    /\ tasks[t].op = "checkSchemaEligibility"
    /\ tasks[t].st = "condition"
    /\ tasks[t].i = 2
    /\ Len(tasks[t].reasons) = 1
    /\ tasks[u].op = "checkCriteria"
    /\ tasks[u].st = "done"
    /\ tasks[u].input.locale = "hi"
    /\ tasks[u].ret.kind = "rejected"

\* the scalar that decides the comparison type: the operand, or the first
\* element of an operand sequence (none: undefined)
OperandScalar(conditionValues) ==
  IF ~IsArray(conditionValues) THEN conditionValues
  ELSE IF conditionValues.v = <<>> THEN Undefined
  ELSE conditionValues.v[1]

\* the comparison type the operand asks for
TargetType(conditionValues) ==
  IF OperandScalar(conditionValues) \in NumericValues THEN "number"
  ELSE IF OperandScalar(conditionValues) \in {Str(S_true), Str(S_false)} THEN "boolean"
  ELSE "string"

ScalarSubjects ==
  NumericValues \cup {Str(x) : x \in PlainStrings} \cup {Str(<<>>), Bool(TRUE), Bool(FALSE)}

\* the subject as a number: the set of the one number it parses to, empty
\* when it parses to none
AsNumber(x) ==
  IF x \in NumericValues THEN {NumberOf(x)}
  ELSE IF x \in {Str(<<>>), Bool(FALSE)} THEN {0}
  ELSE IF x = Bool(TRUE) THEN {1}
  ELSE {}

\* the subject as a boolean: its truthiness
AsBoolean(x) ==
  IF x.t = "number" THEN x.v # 0
  ELSE IF x.t = "boolean" THEN x.v
  ELSE x.v # <<>>

\* the subject or operand scalar as a lower-cased string
AsString(x) ==
  IF x.t = "string" THEN ToLowerCase(x.v)
  ELSE IF x.t = "number" THEN NumberToString(x.v)
  ELSE IF x.t = "boolean" THEN (IF x.v THEN S_true ELSE S_false)
  ELSE <<"u","n","d","e","f","i","n","e","d">>

\* equals on the subject and the operand scalar, both coerced to the target
\* type
EqualAs(type, x, y) ==
  IF type = "number" THEN AsNumber(x) # {} /\ AsNumber(x) = AsNumber(y)
  ELSE IF type = "boolean" THEN AsBoolean(x) = AsBoolean(y)
  ELSE AsString(x) = AsString(y)

\* gte on the subject and the operand scalar, as numbers or as booleans
AtLeastAs(type, x, y) ==
  IF type = "number"
    THEN \E m \in AsNumber(x), n \in AsNumber(y) : m >= n
    ELSE AsBoolean(x) \/ ~AsBoolean(y)

SequenceSubject == IsArray(args.userValue) /\ args.userValue.v # <<>>

ReducingOperators ==
  UNION {EqualsAliases, InAliases, GteAliases, LteAliases, GtAliases, LtAliases}
    \cup {S_between}

\* some element after the first is, as a number, an element of the operand
\* sequence, and the first is not
OnlyLaterElementIsMember(s, a) ==
  /\ AllNumeric(s) /\ AllNumeric(a)
  /\ \A k \in 1..Len(a) : NumberOf(a[k]) # NumberOf(s[1])
  /\ \E j \in 2..Len(s) : \E k \in 1..Len(a) : NumberOf(a[k]) = NumberOf(s[j])

\* C17: checkCriteria reduces a non-empty sequence subject s to its first
\* element: under equals, the ordering operators, between and in/includes,
\* its outcome on s is its outcome on s[0] for every operand, and a subject
\* of which only a later element is in the operand sequence does not pass in.
C17_SubjectReducedToFirst ==
  (/\ Done("checkCriteria") /\ SequenceSubject
   /\ NormalizedOperator[args.condition] \in ReducingOperators) =>
    /\ ret = checkCriteria(args.userValue.v[1], args.condition,
                           args.conditionValues, args.locale)
    /\ (/\ NormalizedOperator[args.condition] \in InAliases
        /\ IsArray(args.conditionValues)
        /\ OnlyLaterElementIsMember(args.userValue.v, args.conditionValues.v))
         => ResolvedTo(FALSE)

\* the subject [2, 9] does not pass in against [9]
C17_Witness ==
  /\ Done("checkCriteria")
  /\ args.condition = Str(S_in)
  /\ args.userValue = Arr(<<Num(2), Num(9)>>)
  /\ args.conditionValues = Arr(<<Num(9)>>)
  /\ ret = Resolved(FALSE)

\* C18: when the operand is the string "true" or "false", equals agrees with
\* the boolean the operand denotes: checkCriteria(v, "equals", "true") passes
\* iff the subject v is truthy and checkCriteria(v, "equals", "false") passes
\* iff v is falsy.
C18_EqualsDenotedBoolean ==
  (/\ Done("checkCriteria") /\ args.userValue \in ScalarSubjects
   /\ NormalizedOperator[args.condition] \in EqualsAliases) =>
    /\ args.conditionValues = Str(S_true) => ResolvedTo(AsBoolean(args.userValue))
    /\ args.conditionValues = Str(S_false) => ResolvedTo(~AsBoolean(args.userValue))

====
